---- MODULE Spec2Model ----
(***************************************************************************)
(* Model of the Noise namespace (noise map synthesis and field algebra).   *)
(*                                                                         *)
(* Numbers are JavaScript numbers.  They are modelled as exact fractions   *)
(* <<n, d>> in lowest terms with d > 0, extended by the three IEEE values  *)
(* the code can produce by dividing by zero: <<1, 0>> is +Infinity,        *)
(* <<-1, 0>> is -Infinity and <<0, 0>> is NaN.  Rounding of the binary     *)
(* floating-point format is not modelled.                                  *)
(***************************************************************************)
EXTENDS Integers, Sequences, FiniteSets, TLC

\* ------------------------------------------------------------------ bounds
MaxW == 2          \* largest width passed to a producer
MaxH == 2          \* largest height passed to a producer
MaxScale == 3      \* largest explicit scale
MaxLayers == 2     \* largest layers count
MaxSeed == 1       \* seeds are 1..MaxSeed
MaxDen == 20       \* largest denominator of a Perlin value given to the ridged transform
MaxSourceSeed == 13 \* seeds of the sources whose first draws are examined

\* ------------------------------------------------------- number arithmetic
Abs(i) == IF i < 0 THEN -i ELSE i

Sgn(i) == IF i < 0 THEN -1 ELSE IF i > 0 THEN 1 ELSE 0

Min(i, j) == IF i < j THEN i ELSE j

RECURSIVE GCD(_, _)
GCD(a, b) == IF b = 0 THEN a ELSE GCD(b, a % b)

\* the number n/d (d = 0 gives an infinity or NaN)
Rat(n, d) ==
    IF d = 0 THEN <<Sgn(n), 0>>
    ELSE LET g == GCD(Abs(n), Abs(d))
         IN  <<(Sgn(d) * n) \div g, Abs(d) \div g>>

Num(i) == <<i, 1>>

NaN == <<0, 0>>

IsNaN(a) == a = NaN

IsFinite(a) == a[2] # 0

Add(a, b) ==
    IF ~IsFinite(a) /\ ~IsFinite(b)
    THEN (IF a = b THEN a ELSE NaN)
    ELSE IF ~IsFinite(a) THEN a
    ELSE IF ~IsFinite(b) THEN b
    ELSE LET g == GCD(a[2], b[2])
         IN  Rat(a[1] * (b[2] \div g) + b[1] * (a[2] \div g), (a[2] \div g) * b[2])

Neg(a) == <<-a[1], a[2]>>

Sub(a, b) == Add(a, Neg(b))

Mul(a, b) == Rat(a[1] * b[1], a[2] * b[2])

\* a / b; common factors of the two denominators are cancelled first
Div(a, b) ==
    LET g == IF IsFinite(a) /\ IsFinite(b) THEN GCD(a[2], b[2]) ELSE 1
        n == a[1] * (b[2] \div g)
        d == (a[2] \div g) * b[1]
    IN  IF d < 0 THEN Rat(-n, -d) ELSE Rat(n, d)

\* the sign of a - b for two numbers that are not NaN
Compare(a, b) ==
    IF ~IsFinite(a) \/ ~IsFinite(b)
    THEN Sgn((IF IsFinite(a) THEN 0 ELSE a[1]) - (IF IsFinite(b) THEN 0 ELSE b[1]))
    ELSE LET g == GCD(a[2], b[2])
         IN  Sgn(a[1] * (b[2] \div g) - b[1] * (a[2] \div g))

\* a < b as JavaScript evaluates it (false when either side is NaN)
Less(a, b) == ~IsNaN(a) /\ ~IsNaN(b) /\ Compare(a, b) < 0

Leq(a, b) == ~IsNaN(a) /\ ~IsNaN(b) /\ Compare(a, b) <= 0

MathAbs(a) == <<Abs(a[1]), a[2]>>

MathFloor(a) == IF IsFinite(a) THEN Num(a[1] \div a[2]) ELSE a

MathMax(a, b) == IF IsNaN(a) \/ IsNaN(b) THEN NaN ELSE IF Less(a, b) THEN b ELSE a

MathMin(a, b) == IF IsNaN(a) \/ IsNaN(b) THEN NaN ELSE IF Less(b, a) THEN b ELSE a

\* an array built by a loop of push calls: every element is computed once
Array(f) == f \o <<>>

RECURSIVE IntPow(_, _)
IntPow(a, k) == IF k = 0 THEN Num(1) ELSE Mul(a, IntPow(a, k - 1))

\* Math.pow(v, 1.5), to two decimal places: 100 * v^1.5 = sqrt((100 v)^3 / 100)
MathPow15(v) ==
    IF IsNaN(v) \/ Less(v, Num(0)) THEN NaN
    ELSE IF ~IsFinite(v) THEN v
    ELSE LET q == (v[1] * 100) \div v[2]
             m == (q * q * q) \div 100
             r == CHOOSE k \in 0..(q + 100) : k * k <= m /\ m < (k + 1) * (k + 1)
         IN  Rat(r, 100)

\* --------------------------------------------------------- the RandomSource
\* FastRandomBlocks is an external generator: a seed and the number of draws
\* taken so far determine every later draw.  The values it returns are taken
\* from a table of 16-bit numbers that includes both ends of the range.
DrawTable ==
    <<9672, 65535, 32768, 6712, 49151, 0, 23096, 55863, 16384, 39479, 58823, 26056, 42439>>

\* which entry of the table the source returns next
DrawIndex(rng) ==
    ((rng.seed * 5 + rng.pos * rng.pos + rng.pos * (2 + rng.seed)) % Len(DrawTable)) + 1

NextNumber(rng) == DrawTable[DrawIndex(rng)]

Advance(rng, k) == [rng EXCEPT !.pos = @ + k]

CreateRNG(s) == [seed |-> s, pos |-> 0]

Seeds == 1..MaxSeed

\* ------------------------------------------------------------ module state
VARIABLES
    currentRng,   \* the RandomSource every noise call draws from
    nodes,        \* node density of the gradient grid
    gradients,    \* the gradient grid: rows of unit vectors
    ret,          \* the call whose result the caller kept: arguments, outcome, state it started from
    warm,         \* TRUE once the caller has made a call and dropped its result
    held,         \* the fields the caller holds in variables, oldest first, as returned
    heap,         \* the row arrays allocated for the held fields and the results
    refs,         \* for every held field the addresses of its rows in heap
    made          \* the noise calls the caller noted since the last setSeed, oldest first

vars == <<currentRng, nodes, gradients, ret, warm, held, heap, refs, made>>

\* the generator state as one value
Module == [rng |-> currentRng, nodes |-> nodes, gradients |-> gradients]

\* --------------------------------------------------------- gradient lattice
\* currentRng.nextNumber() / 65535 for every entry of the table
Normalized == Array([k \in 1..Len(DrawTable) |-> Rat(DrawTable[k], 65535)])

\* seeded_random: the next draw divided by 65535
SeededRandom(rng) == Normalized[DrawIndex(rng)]

\* Math.cos and Math.sin of theta = v * 2 * PI, in fifths, for the turn
\* fractions v the RandomSource can produce (exact to four decimal places)
CosSin5 ==
    (Rat(0, 65535) :> <<5, 0>>) @@ (Rat(6712, 65535) :> <<4, 3>>) @@
    (Rat(9672, 65535) :> <<3, 4>>) @@ (Rat(16384, 65535) :> <<0, 5>>) @@
    (Rat(23096, 65535) :> <<-3, 4>>) @@ (Rat(26056, 65535) :> <<-4, 3>>) @@
    (Rat(32768, 65535) :> <<-5, 0>>) @@ (Rat(39479, 65535) :> <<-4, -3>>) @@
    (Rat(42439, 65535) :> <<-3, -4>>) @@ (Rat(49151, 65535) :> <<0, -5>>) @@
    (Rat(55863, 65535) :> <<3, -4>>) @@ (Rat(58823, 65535) :> <<4, -3>>) @@
    (Rat(65535, 65535) :> <<5, 0>>)

\* { x: Math.cos(theta), y: Math.sin(theta) } for every value seeded_random returns
UnitVectors ==
    Array([k \in 1..Len(DrawTable) |->
        LET c == CosSin5[Normalized[k]] IN [x |-> Rat(c[1], 5), y |-> Rat(c[2], 5)]])

\* random_unit_vector: theta = seeded_random() * 2 * PI
RandomUnitVector(rng) == UnitVectors[DrawIndex(rng)]

\* the rows initialize_gradients pushes: row i, column j from draw i*n + j
GradientRows(rng, n) ==
    IF n <= 0 THEN <<>>
    ELSE Array([i \in 1..n |-> Array([j \in 1..n |->
            RandomUnitVector(Advance(rng, (i - 1) * n + (j - 1)))])])

\* initialize_gradients without the reset of the grid: rows are appended
InitializeGradientsNoReset(m) ==
    [m EXCEPT !.gradients = m.gradients \o GradientRows(m.rng, m.nodes),
              !.rng = Advance(m.rng, IF m.nodes > 0 THEN m.nodes * m.nodes ELSE 0)]

InitializeGradients(m) ==
    [m EXCEPT !.gradients = GradientRows(m.rng, m.nodes),
              !.rng = Advance(m.rng, IF m.nodes > 0 THEN m.nodes * m.nodes ELSE 0)]

\* ------------------------------------------------------------ coherent noise
\* does gradients[vert_y][vert_x] exist in grid g
InGrid(g, vert_x, vert_y) ==
    /\ vert_y >= 0 /\ vert_y < Len(g)
    /\ vert_x >= 0 /\ vert_x < Len(g[vert_y + 1])

\* dot_prod_grid for a lattice point that exists
DotProdGrid(g, x, y, vert_x, vert_y) ==
    LET g_vect == g[vert_y + 1][vert_x + 1]
        d_x == Sub(x, Num(vert_x))
        d_y == Sub(y, Num(vert_y))
    IN  Add(Mul(d_x, g_vect.x), Mul(d_y, g_vect.y))

\* 6 * x ** 5 - 15 * x ** 4 + 10 * x ** 3, over the common denominator
Smootherstep(x) ==
    IF ~IsFinite(x) THEN NaN
    ELSE LET n == x[1]
             d == x[2]
         IN  Rat(n * n * n * (6 * n * n - 15 * n * d + 10 * d * d), d * d * d * d * d)

\* the interpolation with its end points exchanged
InterpReversed(x, a, b) == Add(b, Mul(Smootherstep(x), Sub(a, b)))

Interp(x, a, b) == Add(a, Mul(Smootherstep(x), Sub(b, a)))

\* the four lattice points perlin_get reads, in the order it reads them
Corners(x, y) ==
    LET x0 == MathFloor(x)[1]
        y0 == MathFloor(y)[1]
    IN  <<<<x0, y0>>, <<x0 + 1, y0>>, <<x0, y0 + 1>>, <<x0 + 1, y0 + 1>>>>

\* the lookups perlin_get(x, y) makes on grid g: ok is FALSE when one leaves
\* the grid (the read of a field of undefined throws); look is the lookups
\* made, the failing one included
PerlinLook(g, x, y) ==
    LET c == Corners(x, y)
        bad == {k \in 1..4 : ~InGrid(g, c[k][1], c[k][2])}
    IN  IF bad = {} THEN [ok |-> TRUE, look |-> {c[k] : k \in 1..4}]
        ELSE LET first == CHOOSE k \in bad : \A j \in bad : k <= j
             IN  [ok |-> FALSE, look |-> {c[k] : k \in 1..first}]

\* the interpolated value returned as it is
RescaleMissing(n) == n

\* (n + 1) / 2: the interpolated value brought from [-1, 1] to [0, 1]
Rescale(n) == Div(Add(n, Num(1)), Num(2))

\* the value perlin_get(x, y) returns when its four lookups are in the grid
PerlinValue(g, x, y) ==
    LET c == Corners(x, y)
        sx == Sub(x, Num(c[1][1]))
        sy == Sub(y, Num(c[1][2]))
        ix0 == Interp(sx, DotProdGrid(g, x, y, c[1][1], c[1][2]),
                          DotProdGrid(g, x, y, c[2][1], c[2][2]))
        ix1 == Interp(sx, DotProdGrid(g, x, y, c[3][1], c[3][2]),
                          DotProdGrid(g, x, y, c[4][1], c[4][2]))
    IN  Rescale(Interp(sy, ix0, ix1))

\* the pixel loop shared by the generators: pixel (x, y) samples
\* perlin_get(x / width * k, y / height * k), rows first, and stops at the
\* first sample that throws.  A rectangular field is a sequence of rows.
Sweep(g, width, height, k) ==
    LET X(x) == Mul(Div(Num(x - 1), Num(width)), k)
        Y(y) == Mul(Div(Num(y - 1), Num(height)), k)
        s == Array([y \in 1..height |-> Array([x \in 1..width |-> PerlinLook(g, X(x), Y(y))])])
        pix == {<<y, x>> : y \in 1..height, x \in 1..width}
        Before(p, q) == p[1] < q[1] \/ (p[1] = q[1] /\ p[2] <= q[2])
        bad == {p \in pix : ~s[p[1]][p[2]].ok}
    IN  IF bad = {}
        THEN [ok |-> TRUE,
              field |-> Array([y \in 1..height |-> Array([x \in 1..width |->
                           PerlinValue(g, X(x), Y(y))])]),
              look |-> UNION {s[p[1]][p[2]].look : p \in pix}]
        ELSE LET first == CHOOSE p \in bad : \A q \in bad : Before(p, q)
             IN  [ok |-> FALSE, field |-> <<>>,
                  look |-> UNION {s[p[1]][p[2]].look : p \in {q \in pix : Before(q, first)}}]

MapField(F(_), field) ==
    Array([y \in 1..Len(field) |-> Array([x \in 1..Len(field[y]) |-> F(field[y][x])])])

\* an outcome of a producer: the field it returns, or the error it throws
Returned(m, field, look) == [m |-> m, status |-> "ok", field |-> field, look |-> look]

Thrown(m, look) == [m |-> m, status |-> "TypeError", field |-> <<>>, look |-> look]

\* the sweep of a coherent generator over the grid of state m
Sampled(m, width, height) == Sweep(m.gradients, width, height, Num(m.nodes - 1))

\* what a generator returns after the sweep s: every cell is the sample itself
PerlinOutcome(m, s) ==
    IF s.ok THEN Returned(m, s.field, s.look) ELSE Thrown(m, s.look)

GeneratePerlinNoise(m, width, height) == PerlinOutcome(m, Sampled(m, width, height))

\* the fold without the absolute value
RidgeNoFold(value) == Sub(Num(1), Sub(Mul(Num(2), value), Num(1)))

\* value = 1 - Math.abs(2 * value - 1)
Ridge(value) == Sub(Num(1), MathAbs(Sub(Mul(Num(2), value), Num(1))))

RidgedOutcome(m, s) ==
    IF s.ok THEN Returned(m, MapField(Ridge, s.field), s.look) ELSE Thrown(m, s.look)

GenerateRidgedNoise(m, width, height) == RidgedOutcome(m, Sampled(m, width, height))

TerrainOutcome(m, s) ==
    IF s.ok THEN Returned(m, MapField(MathPow15, s.field), s.look) ELSE Thrown(m, s.look)

GenerateTerrainNoise(m, width, height) == TerrainOutcome(m, Sampled(m, width, height))

\* the inversion left out
ComplementMissing(value) == value

Complement(value) == Sub(Num(1), value)

RiverOutcome(ridged) ==
    IF ridged.status = "ok"
    THEN Returned(ridged.m, MapField(Complement, ridged.field), ridged.look)
    ELSE ridged

GenerateRiverNoise(m, width, height) == RiverOutcome(GenerateRidgedNoise(m, width, height))

\* the row loop drawing twice for every cell
RECURSIVE StaticRowSkipping(_, _, _)
StaticRowSkipping(rng, row, width) ==
    IF Len(row) >= width THEN [row |-> row, rng |-> rng]
    ELSE StaticRowSkipping(Advance(rng, 2), Append(row, SeededRandom(rng)), width)

\* one row of generate_static_noise: width calls of seeded_random, in order
RECURSIVE StaticRow(_, _, _)
StaticRow(rng, row, width) ==
    IF Len(row) >= width THEN [row |-> row, rng |-> rng]
    ELSE StaticRow(Advance(rng, 1), Append(row, SeededRandom(rng)), width)

\* the rows loop of generate_static_noise
RECURSIVE StaticRows(_, _, _, _)
StaticRows(rng, noise, width, height) ==
    IF Len(noise) >= height THEN [noise |-> noise, rng |-> rng]
    ELSE LET r == StaticRow(rng, <<>>, width)
         IN  StaticRows(r.rng, Append(noise, r.row), width, height)

GenerateStaticNoise(m, width, height) ==
    LET r == StaticRows(m.rng, <<>>, width, height)
    IN  Returned([m EXCEPT !.rng = r.rng], r.noise, {})

\* ------------------------------------------------------------ public calls
DefaultScale == 4

InitialNodes == 12

\* an optional argument is <<>> when omitted and <<value>> when given
Omitted == <<>>

\* scale ?? 4: only an omitted scale is replaced
ScaleOrDefaultNullish(scale) ==
    IF scale = Omitted THEN DefaultScale ELSE scale[1]

\* scale || 4
ScaleOrDefault(scale) ==
    IF scale = Omitted \/ scale[1] = 0 THEN DefaultScale ELSE scale[1]

\* persistence || 0.5
PersistenceOrDefault(persistence) ==
    IF persistence = Omitted \/ persistence[1] = Num(0) \/ IsNaN(persistence[1])
    THEN Rat(1, 2) ELSE persistence[1]

NoiseTypes == {"Perlin", "Static", "Ridged", "Terrain", "River"}

Coherent == {"Perlin", "Ridged", "Terrain", "River"}

\* createNoiseMap(noiseType, width, height, scale) started in generator state m
\* the switch of createNoiseMap; g is the state after nodes = scale || 4 and
\* initialize_gradients()
NoiseMapOfKind(m, g, noiseType, width, height) ==
    CASE noiseType = "Perlin"  -> GeneratePerlinNoise(g, width, height)
      [] noiseType = "Static"  -> GenerateStaticNoise(m, width, height)
      [] noiseType = "Ridged"  -> GenerateRidgedNoise(g, width, height)
      [] noiseType = "Terrain" -> GenerateTerrainNoise(g, width, height)
      [] noiseType = "River"   -> GenerateRiverNoise(g, width, height)
      [] OTHER                 -> Returned(m, <<>>, {})

CreateNoiseMapFrom(m, noiseType, width, height, scale) ==
    NoiseMapOfKind(m, InitializeGradients([m EXCEPT !.nodes = ScaleOrDefault(scale)]),
                   noiseType, width, height)

\* Math.pow(2, i)
RECURSIVE Pow2(_)
Pow2(i) == IF i = 0 THEN 1 ELSE 2 * Pow2(i - 1)

\* the layers loop of createLayeredNoiseMap from octave i on: acc is noiseMap,
\* look the lookups made so far
RECURSIVE Octaves(_, _, _, _, _, _, _, _, _, _)
\* octave i of the loop: g is the state after initialize_gradients(), s the
\* sweep of the octave
Octave(g, s, width, height, layers, p, i, acc, amplitude, totalAmplitude, look) ==
    IF ~s.ok THEN Thrown(g, look \cup s.look)
    ELSE Octaves(g, width, height, layers, p, i + 1,
                 Array([y \in 1..height |-> Array([x \in 1..width |->
                     Add(acc[y][x], Mul(s.field[y][x], amplitude))])]),
                 Mul(amplitude, p), Add(totalAmplitude, amplitude),
                 look \cup s.look)

\* the sweep of octave i over the grid of state g
SampledOctave(g, width, height, i) ==
    Sweep(g.gradients, width, height, Num(g.nodes * Pow2(i)))

Regenerated(g, width, height, layers, p, i, acc, amplitude, totalAmplitude, look) ==
    Octave(g, SampledOctave(g, width, height, i), width, height, layers, p, i, acc,
           amplitude, totalAmplitude, look)

Octaves(m, width, height, layers, p, i, acc, amplitude, totalAmplitude, look) ==
    IF i >= layers
    THEN Returned(m, MapField(LAMBDA c : Div(c, totalAmplitude), acc), look)
    ELSE Regenerated(InitializeGradients(m), width, height, layers, p, i, acc,
                     amplitude, totalAmplitude, look)

\* createLayeredNoiseMap(width, height, layers, scale, persistence) from state m
CreateLayeredNoiseMapFrom(m, width, height, layers, scale, persistence) ==
    Octaves([m EXCEPT !.nodes = ScaleOrDefault(scale)], width, height, layers,
            PersistenceOrDefault(persistence), 0,
            Array([y \in 1..height |-> Array([x \in 1..width |-> Num(0)])]),
            Num(1), Num(0), {})

\* ---------------------------------------------------------- field operators
\* The operators take the fields the producers return, which are rectangular.
\* Reading noise[0].length of a field with zero rows is a TypeError.
Completed(field) == [status |-> "ok", field |-> field]

Failed == [status |-> "TypeError", field |-> <<>>]

InvertNoise(noise) ==
    IF Len(noise) = 0 THEN Failed
    ELSE LET height == Len(noise)
             width == Len(noise[1])
         IN  Completed(Array([y \in 1..height |->
                 Array([x \in 1..width |-> Sub(Num(1), noise[y][x])])]))

ThresholdNoiseMap(noiseMap, threshold) ==
    IF Len(noiseMap) = 0 THEN Failed
    ELSE LET h == Len(noiseMap)
             w == Len(noiseMap[1])
         IN  Completed(Array([y \in 1..h |->
                 Array([x \in 1..w |->
                     IF Less(threshold, noiseMap[y][x]) THEN Num(1) ELSE Num(0)])]))

\* Math.sqrt(val1 * val2), to two decimal places from operands cut to two
\* decimal places
SqrtOfProduct(val1, val2) ==
    LET p == Mul(<<Sgn(val1[1]), 1>>, <<Sgn(val2[1]), 1>>)
    IN  IF IsNaN(val1) \/ IsNaN(val2) THEN NaN
        ELSE IF ~IsFinite(val1) \/ ~IsFinite(val2)
             THEN (IF p[1] > 0 THEN <<1, 0>> ELSE NaN)
        ELSE IF p[1] < 0 THEN NaN
        ELSE LET q1 == (Abs(val1[1]) * 100) \div val1[2]
                 q2 == (Abs(val2[1]) * 100) \div val2[2]
                 m == q1 * q2
                 r == CHOOSE k \in 0..(q1 + q2 + 1) : k * k <= m /\ m < (k + 1) * (k + 1)
             IN  Rat(r, 100)

CombineOperations == {"Product", "Average", "Difference", "Union", "Intersection", "Quotient"}

CombinedValue(val1, val2, operation) ==
    CASE operation = "Product" -> SqrtOfProduct(val1, val2)
      [] operation = "Average" -> Div(Add(val1, val2), Num(2))
      [] operation = "Difference" ->
             MathMax(Num(0), MathMin(Num(1), Add(Sub(val1, val2), Rat(1, 2))))
      [] operation = "Union" -> MathMax(val1, val2)
      [] operation = "Intersection" -> MathMin(val1, val2)
      [] operation = "Quotient" -> Div(val1, val2)
      [] OTHER -> val1

CombineNoiseMaps(noiseMap1, noiseMap2, operation) ==
    IF Len(noiseMap1) = 0 \/ Len(noiseMap2) = 0 THEN Failed
    ELSE LET h == IF Len(noiseMap1) < Len(noiseMap2) THEN Len(noiseMap1) ELSE Len(noiseMap2)
             w1 == Len(noiseMap1[1])
             w2 == Len(noiseMap2[1])
             w == IF w1 < w2 THEN w1 ELSE w2
         IN  Completed(Array([y \in 1..h |->
                 Array([x \in 1..w |->
                     CombinedValue(noiseMap1[y][x], noiseMap2[y][x], operation)])]))

\* -------------------------------------------------------------------- masks
\* Math.sqrt(v), to two decimal places
MathSqrt(v) ==
    IF IsNaN(v) \/ Less(v, Num(0)) THEN NaN
    ELSE IF ~IsFinite(v) THEN v
    ELSE LET m == (v[1] * 10000) \div v[2]
             r == CHOOSE k \in 0..(100 * ((v[1] \div v[2]) + 1)) :
                      k * k <= m /\ m < (k + 1) * (k + 1)
         IN  Rat(r, 100)

\* a mask: height rows of width cells, cell (x, y) counted from 0
Mask(V(_, _), width, height) ==
    Array([y \in 1..height |-> Array([x \in 1..width |-> V(x - 1, y - 1)])])

\* the distance of pixel (x, y) from the centre of the map
CentreDistance(x, y, width, height) ==
    MathSqrt(Add(Mul(Sub(Num(x), Rat(width, 2)), Sub(Num(x), Rat(width, 2))),
                 Mul(Sub(Num(y), Rat(height, 2)), Sub(Num(y), Rat(height, 2)))))

\* if (value < 0) value = 0
ClampLow(value) == IF Less(value, Num(0)) THEN Num(0) ELSE value

\* if (value > 1) value = 1
ClampHigh(value) == IF Less(Num(1), value) THEN Num(1) ELSE value

GenerateGradientMask(width, height) ==
    Mask(LAMBDA x, y :
             ClampHigh(ClampLow(Sub(Num(1),
                 Div(CentreDistance(x, y, width, height),
                     MathSqrt(Add(Mul(Rat(width, 2), Rat(width, 2)),
                                  Mul(Rat(height, 2), Rat(height, 2)))))))),
         width, height)

\* an omitted value is undefined: every cell is undefined, which arithmetic
\* reads as NaN
OptOrUndefined(opt) == IF opt = Omitted THEN NaN ELSE opt[1]

GenerateSolidMask(width, height, value) ==
    Mask(LAMBDA x, y : value, width, height)

GenerateVerticalGradient(width, height) ==
    Mask(LAMBDA x, y : Div(Num(y), Num(height - 1)), width, height)

GenerateHorizontalGradient(width, height) ==
    Mask(LAMBDA x, y : Div(Num(x), Num(width - 1)), width, height)

GenerateIslandMask(width, height) ==
    Mask(LAMBDA x, y :
             ClampLow(Sub(Num(1),
                 Div(CentreDistance(x, y, width, height),
                     MathMin(Rat(width, 2), Rat(height, 2))))),
         width, height)

\* (a + b) % 2 === 0 for two results of Math.floor
EvenSum(a, b) ==
    IsFinite(a) /\ IsFinite(b) /\ (a[1] + b[1]) % 2 = 0

GenerateCheckerboard(width, height, size) ==
    Mask(LAMBDA x, y :
             IF EvenSum(MathFloor(Div(Num(x), size)), MathFloor(Div(Num(y), size)))
             THEN Num(1) ELSE Num(0),
         width, height)

GenerateEdgeFalloff(width, height, margin) ==
    Mask(LAMBDA x, y :
             MathMin(Num(1),
                     Div(MathMin(MathMin(Num(x), Num(width - 1 - x)),
                                 MathMin(Num(y), Num(height - 1 - y))),
                         margin)),
         width, height)

MaskTypes == {"Gradient", "Solid", "Island", "Edge_falloff", "Vertical_gradient",
              "Horizontal_gradient", "Checkerboard"}

\* the switch of CreateNoiseMask
MaskOfType(maskType, width, height, opt) ==
    CASE maskType = "Gradient" -> GenerateGradientMask(width, height)
      [] maskType = "Solid" -> GenerateSolidMask(width, height, opt)
      [] maskType = "Island" -> GenerateIslandMask(width, height)
      [] maskType = "Edge_falloff" -> GenerateEdgeFalloff(width, height, opt)
      [] maskType = "Horizontal_gradient" -> GenerateHorizontalGradient(width, height)
      [] maskType = "Vertical_gradient" -> GenerateVerticalGradient(width, height)
      [] maskType = "Checkerboard" -> GenerateCheckerboard(width, height, opt)

\* the mask drawn from the RandomSource: a Static map in place of the mask
CreateNoiseMaskDrawing(m, maskType, width, height, opt) ==
    GenerateStaticNoise(m, width, height)

\* CreateNoiseMask(maskType, width, height, opt) called in generator state m
CreateNoiseMaskFrom(m, maskType, width, height, opt) ==
    Returned(m, MaskOfType(maskType, width, height, OptOrUndefined(opt)), {})

\* ----------------------------------------------------------------- actions
\* What the caller does with the result of a noise call: "keep" records the
\* call in ret with the generator state it started from and ends the noise
\* calls of the run, "drop" discards it (at most one call of a run is dropped),
\* "hold" stores the returned field in a variable for the field operators,
\* "note" adds the call to the calls made since the last setSeed.

\* the record kept of a noise call
Call(op, noiseType, width, height, layers, scale, persistence, out, pre) ==
    [op |-> op, noiseType |-> noiseType, width |-> width, height |-> height,
     layers |-> layers, scale |-> scale, persistence |-> persistence,
     status |-> out.status, field |-> out.field, look |-> out.look, pre |-> pre]

Widths == 0..MaxW

Heights == 0..MaxH

ScaleArgs == {Omitted} \cup {<<k>> : k \in 0..MaxScale}

PersistenceArgs == {Omitted, <<Rat(1, 4)>>}

\* the generator state after construction with the random seed s
Constructed(s) == [rng |-> CreateRNG(s), nodes |-> InitialNodes, gradients |-> <<>>]

Init ==
    /\ currentRng \in {Constructed(s).rng : s \in Seeds}
    /\ nodes = InitialNodes
    /\ gradients = <<>>
    /\ ret = [op |-> "none"]
    /\ warm = FALSE
    /\ held = <<>>
    /\ heap = <<>>
    /\ refs = <<>>
    /\ made = <<>>

\* the generator state after a call
Commit(m) ==
    /\ currentRng' = m.rng
    /\ nodes' = m.nodes
    /\ gradients' = m.gradients

CanUse(use) ==
    /\ ret.op = "none"
    /\ use = "drop" => ~warm /\ held = <<>>
    /\ use = "hold" => Len(held) < 2
    /\ use = "note" => Len(made) < 2

\* the rows of a field a call returns are new arrays: they are put at the
\* end of the heap h, and the field is known by their addresses
Store(h, field) ==
    [heap |-> h \o field, ref |-> Array([y \in 1..Len(field) |-> Len(h) + y])]

\* the field whose rows are at the addresses ref
Deref(h, ref) == Array([y \in 1..Len(ref) |-> h[ref[y]]])

Use(use, call) ==
    CASE use = "keep" -> ret' = call /\ UNCHANGED <<warm, held, heap, refs, made>>
      [] use = "drop" -> warm' = TRUE /\ UNCHANGED <<ret, held, heap, refs, made>>
      [] use = "note" -> made' = Append(made, call) /\ UNCHANGED <<ret, warm, held, heap, refs>>
      [] use = "hold" -> /\ call.status = "ok"
                         /\ held' = Append(held, call.field)
                         /\ heap' = Store(heap, call.field).heap
                         /\ refs' = Append(refs, Store(heap, call.field).ref)
                         /\ UNCHANGED <<ret, warm, made>>

\* setSeed(Random.createRNG(s))
SetSeed(s) ==
    /\ ret.op = "none"
    /\ held = <<>>
    /\ currentRng' = CreateRNG(s)
    /\ made' = <<>>
    /\ UNCHANGED <<nodes, gradients, ret, warm, held, heap, refs>>

\* the call ends with outcome out: the generator state is the one the call
\* left, and the caller does with the result what use says
Ends(use, op, noiseType, width, height, layers, scale, persistence, out) ==
    /\ Commit(out.m)
    /\ Use(use, Call(op, noiseType, width, height, layers, scale, persistence, out, Module))

CreateNoiseMap(use, noiseType, width, height, scale) ==
    /\ CanUse(use)
    /\ Ends(use, "createNoiseMap", noiseType, width, height, 0, scale, Omitted,
            CreateNoiseMapFrom(Module, noiseType, width, height, scale))

CreateLayeredNoiseMap(use, width, height, layers, scale, persistence) ==
    /\ CanUse(use)
    /\ Ends(use, "createLayeredNoiseMap", "", width, height, layers, scale, persistence,
            CreateLayeredNoiseMapFrom(Module, width, height, layers, scale, persistence))

AnyCreateNoiseMap(use) ==
    \E t \in NoiseTypes \cup {"Other"}, w \in Widths, h \in Heights, sc \in ScaleArgs :
        CreateNoiseMap(use, t, w, h, sc)

AnyCreateLayeredNoiseMap(use) ==
    \E w \in Widths, h \in Heights, l \in 0..MaxLayers, sc \in ScaleArgs, p \in PersistenceArgs :
        CreateLayeredNoiseMap(use, w, h, l, sc, p)

MaskOpts == {Omitted, <<Num(0)>>, <<Rat(1, 2)>>, <<Num(1)>>, <<Num(2)>>}

CreateNoiseMask(use, maskType, width, height, opt) ==
    /\ CanUse(use)
    /\ Ends(use, "CreateNoiseMask", maskType, width, height, 0, opt, Omitted,
            CreateNoiseMaskFrom(Module, maskType, width, height, opt))

AnyCreateNoiseMask(use) ==
    \E t \in MaskTypes, w \in Widths, h \in Heights, o \in MaskOpts :
        CreateNoiseMask(use, t, w, h, o)

\* the kept call is a createNoiseMap
Next ==
    \/ \E s \in Seeds : SetSeed(s)
    \/ AnyCreateNoiseMap("keep")
    \/ AnyCreateNoiseMap("drop")
    \/ AnyCreateLayeredNoiseMap("drop")

Spec == Init /\ [][Next]_vars

\* the kept call is a createLayeredNoiseMap
NextLayered ==
    \/ \E s \in Seeds : SetSeed(s)
    \/ AnyCreateLayeredNoiseMap("keep")
    \/ AnyCreateLayeredNoiseMap("drop")
    \/ AnyCreateNoiseMap("drop")

LayeredSpec == Init /\ [][NextLayered]_vars

\* the record kept of a field operator call; first is the field a chain of
\* invert_noise calls started from, argrefs and ref the addresses of the rows
\* of the arguments and of the result
Applied(op, operation, args, out, first, depth, argrefs, ref) ==
    [op |-> op, operation |-> operation, args |-> args, status |-> out.status,
     field |-> out.field, first |-> first, depth |-> depth,
     argrefs |-> argrefs, ref |-> ref]

\* the result written into the rows of the argument at argref
StoreOverArgument(h, argref, field) ==
    [heap |-> Array([a \in 1..Len(h) |->
                 IF \E y \in 1..Min(Len(argref), Len(field)) : argref[y] = a
                 THEN field[CHOOSE y \in 1..Min(Len(argref), Len(field)) : argref[y] = a]
                 ELSE h[a]]),
     ref |-> Array([y \in 1..Min(Len(argref), Len(field)) |-> argref[y]])]

\* let result = []; ... let row = []; ... result.push(row): the result of a
\* field operator is built in new arrays
StoreResult(h, argref, field) == Store(h, field)

\* a field operator called with the fields at argrefs ends with outcome out
Operated(op, operation, argrefs, args, out, first, depth) ==
    /\ ret' = Applied(op, operation, args, out, first, depth, argrefs,
                      IF out.status = "ok"
                      THEN StoreResult(heap, argrefs[1], out.field).ref ELSE <<>>)
    /\ heap' = IF out.status = "ok"
               THEN StoreResult(heap, argrefs[1], out.field).heap ELSE heap
    /\ UNCHANGED <<currentRng, nodes, gradients, warm, held, refs, made>>

\* ret = invert_noise(held[i])
InvertHeld(i) ==
    /\ ret.op = "none"
    /\ Operated("invert_noise", "", <<refs[i]>>, <<Deref(heap, refs[i])>>,
                InvertNoise(Deref(heap, refs[i])), held[i], 1)

\* ret = invert_noise(ret)
InvertAgain ==
    /\ ret.op = "invert_noise"
    /\ ret.status = "ok"
    /\ ret.depth = 1
    /\ Operated("invert_noise", "", <<ret.ref>>, <<Deref(heap, ret.ref)>>,
                InvertNoise(Deref(heap, ret.ref)), ret.first, 2)

\* ret = combineNoiseMaps(held[i], held[j], operation)
Combine(i, j, operation) ==
    /\ ret.op = "none"
    /\ Operated("combineNoiseMaps", operation, <<refs[i], refs[j]>>,
                <<Deref(heap, refs[i]), Deref(heap, refs[j])>>,
                CombineNoiseMaps(Deref(heap, refs[i]), Deref(heap, refs[j]), operation),
                held[i], 1)

Thresholds == {Num(0), Rat(1, 2), Num(1)}

\* ret = thresholdNoiseMap(held[i], threshold)
Threshold(i, threshold) ==
    /\ ret.op = "none"
    /\ Operated("thresholdNoiseMap", threshold, <<refs[i]>>, <<Deref(heap, refs[i])>>,
                ThresholdNoiseMap(Deref(heap, refs[i]), threshold), held[i], 1)

\* The fields the caller of the field operators holds: Static maps, the map
\* of an unrecognised kind, and layered maps of no layers.
HoldNoiseMap ==
    \E t \in {"Static", "Other"}, w \in Widths, h \in Heights :
        CreateNoiseMap("hold", t, w, h, Omitted)

HoldLayered ==
    \E w \in Widths, h \in Heights :
        CreateLayeredNoiseMap("hold", w, h, 0, Omitted, Omitted)

NextAlgebra ==
    \/ HoldNoiseMap
    \/ HoldLayered
    \/ \E i \in 1..Len(held) : InvertHeld(i)
    \/ InvertAgain
    \/ \E i, j \in 1..Len(held), o \in CombineOperations \cup {"Other"} : Combine(i, j, o)
    \/ \E i \in 1..Len(held), t \in Thresholds : Threshold(i, t)

AlgebraSpec == Init /\ [][NextAlgebra]_vars

\* The caller holds masks as well, so that a field of every producer is held
\* while later calls are made.
HoldMask ==
    \E t \in MaskTypes, w \in Widths, h \in Heights :
        CreateNoiseMask("hold", t, w, h, Omitted)

NextObject ==
    \/ NextAlgebra
    \/ HoldMask

ObjectSpec == Init /\ [][NextObject]_vars

\* The ridged transform on its own: a 1 x 1 field holding any Perlin value
\* v = k/d in [0, 1] is given to the transform generate_ridged_noise applies
\* to every cell.
PerlinValues == UNION {{Rat(k, d) : k \in 0..d} : d \in 1..MaxDen}

RidgeInit ==
    /\ currentRng \in {Constructed(s).rng : s \in Seeds}
    /\ nodes = InitialNodes
    /\ gradients = <<>>
    /\ ret = [op |-> "none"]
    /\ warm = FALSE
    /\ held \in {<<(<< <<v>> >>)>> : v \in PerlinValues}
    /\ heap = <<>>
    /\ refs = <<>>
    /\ made = <<>>

RidgedTransform ==
    /\ ret.op = "none"
    /\ ret' = Applied("ridged", "", held, Completed(MapField(Ridge, held[1])), held[1], 1,
                      <<>>, <<>>)
    /\ UNCHANGED <<currentRng, nodes, gradients, warm, held, heap, refs, made>>

RidgeSpec == RidgeInit /\ [][RidgedTransform]_vars

\* the kept call is a CreateNoiseMask
NextMask ==
    \/ \E s \in Seeds : SetSeed(s)
    \/ AnyCreateNoiseMap("drop")
    \/ AnyCreateLayeredNoiseMap("drop")
    \/ AnyCreateNoiseMask("keep")

MaskSpec == Init /\ [][NextMask]_vars

\* The calls that leave scale or persistence to the default: the kept call
\* passes scale omitted, 0 or 2 and persistence omitted, 0 or 1/4.
DefaultedScaleArgs == {Omitted, <<0>>, <<2>>}

DefaultedPersistenceArgs == {Omitted, <<Num(0)>>, <<Rat(1, 4)>>}

KeepDefaultedNoiseMap ==
    \E t \in NoiseTypes \cup {"Other"}, w \in Widths, h \in Heights, sc \in DefaultedScaleArgs :
        CreateNoiseMap("keep", t, w, h, sc)

KeepDefaultedLayered ==
    \E w \in Widths, h \in Heights, l \in 0..MaxLayers,
       sc \in DefaultedScaleArgs, p \in DefaultedPersistenceArgs :
        CreateLayeredNoiseMap("keep", w, h, l, sc, p)

NextDefaults ==
    \/ \E s \in Seeds : SetSeed(s)
    \/ AnyCreateNoiseMap("drop")
    \/ KeepDefaultedNoiseMap
    \/ KeepDefaultedLayered

DefaultsSpec == Init /\ [][NextDefaults]_vars

\* The unrecognised variants: the caller of the field operators may first
\* make one noise call and drop it, and may end the run by keeping a
\* createNoiseMap of a kind that is none of the five.
KeepUnrecognised ==
    \E w \in Widths, h \in Heights, sc \in ScaleArgs :
        CreateNoiseMap("keep", "Other", w, h, sc)

NextFallthrough ==
    \/ NextAlgebra
    \/ AnyCreateNoiseMap("drop")
    \/ KeepUnrecognised

FallthroughSpec == Init /\ [][NextFallthrough]_vars

\* The draws of a run of noise calls: the caller makes up to two noise calls
\* of any kind on maps of at least one cell, with the scale omitted or 2, and
\* notes each of them; a setSeed after the first call starts a new run.
NotedScaleArgs == {Omitted, <<2>>}

NoteNoiseMap ==
    \E t \in NoiseTypes \cup {"Other"}, w \in 1..MaxW, h \in 1..MaxH, sc \in NotedScaleArgs :
        CreateNoiseMap("note", t, w, h, sc)

NoteLayered ==
    \E w \in 1..MaxW, h \in 1..MaxH, l \in 0..MaxLayers, sc \in NotedScaleArgs :
        CreateLayeredNoiseMap("note", w, h, l, sc, Omitted)

NextAccount ==
    \/ \E s \in Seeds : Len(made) = 1 /\ SetSeed(s)
    \/ NoteNoiseMap
    \/ NoteLayered

AccountSpec == Init /\ [][NextAccount]_vars

\* The normalisation of the draws: the module is constructed with any of
\* the sources 1..MaxSourceSeed, whose first draws are all the values of the
\* table, and one map is requested.
DrawInit ==
    /\ currentRng \in {CreateRNG(s) : s \in 1..MaxSourceSeed}
    /\ nodes = InitialNodes
    /\ gradients = <<>>
    /\ ret = [op |-> "none"]
    /\ warm = FALSE
    /\ held = <<>>
    /\ heap = <<>>
    /\ refs = <<>>
    /\ made = <<>>

KeepFromSource ==
    \E t \in NoiseTypes \cup {"Other"}, w \in Widths, h \in Heights :
        CreateNoiseMap("keep", t, w, h, Omitted)

DrawSpec == DrawInit /\ [][KeepFromSource]_vars

\* -------------------------------------------------------------- properties
KeptNoiseMap(noiseType) == ret.op = "createNoiseMap" /\ ret.noiseType = noiseType

KeptLayered == ret.op = "createLayeredNoiseMap"

\* C1: a Perlin map requested right after setSeed of a source freshly seeded
\* with s is the map the same request returns right after construction with
\* seed s, whatever request was made before the setSeed: the field depends on
\* the seed and on (width, height, scale) alone, so two such requests agree
\* cell for cell.
C1_PerlinDeterminism ==
    (KeptNoiseMap("Perlin") /\ ret.pre.rng.pos = 0) =>
        LET first == CreateNoiseMapFrom(Constructed(ret.pre.rng.seed), "Perlin",
                                        ret.width, ret.height, ret.scale)
        IN  ret.status = first.status /\ ret.field = first.field

\* a Perlin map of two columns kept after an earlier coherent request with
\* another node density and a setSeed
C1_Witness ==
    /\ KeptNoiseMap("Perlin") /\ ret.pre.rng.pos = 0 /\ warm
    /\ ret.pre.gradients # <<>> /\ ret.pre.nodes # ScaleOrDefault(ret.scale)
    /\ ret.status = "ok" /\ ret.width = 2 /\ ret.height = 2
    /\ ret.field[2][2] # Rat(1, 2)

\* the k-th next draw of a source, normalised
NthDraw(rng, k) == Rat(NextNumber(Advance(rng, k)), 65535)

\* C2: a Static map has height rows of width cells, cell (x, y) is draw number
\* y * width + x of the source divided by 65535, the call consumes
\* width * height draws and leaves nodes and the gradient grid as they were.
C2_StaticSequential ==
    KeptNoiseMap("Static") =>
        /\ ret.status = "ok"
        /\ Len(ret.field) = ret.height
        /\ \A y \in 1..ret.height :
              /\ Len(ret.field[y]) = ret.width
              /\ \A x \in 1..ret.width :
                    ret.field[y][x] = NthDraw(ret.pre.rng, (y - 1) * ret.width + (x - 1))
        /\ currentRng = Advance(ret.pre.rng, ret.width * ret.height)
        /\ nodes = ret.pre.nodes
        /\ gradients = ret.pre.gradients

\* a 2 x 2 Static map drawn from a source that was already drawn from, with a
\* gradient grid in place
C2_Witness ==
    /\ KeptNoiseMap("Static") /\ ret.width = 2 /\ ret.height = 2
    /\ ret.pre.rng.pos > 0 /\ gradients # <<>>
    /\ ret.field[1][2] # ret.field[2][1]

InRange(look, n) ==
    \A v \in look : 0 <= v[1] /\ v[1] < n /\ 0 <= v[2] /\ v[2] < n

\* C3: while createNoiseMap builds a Perlin, Ridged, Terrain or River map of
\* width >= 1, height >= 1 with a positive integer scale, every gradient
\* lookup gradients[vy][vx] has 0 <= vx < nodes and 0 <= vy < nodes.
C3_LatticeBounds ==
    (/\ ret.op = "createNoiseMap"
     /\ ret.noiseType \in Coherent
     /\ ret.width >= 1 /\ ret.height >= 1
     /\ ret.scale # Omitted /\ ret.scale[1] >= 1)
    => InRange(ret.look, nodes)

\* C4: while createLayeredNoiseMap samples its octaves, for width, height >= 1,
\* layers >= 1 and a positive integer scale, every gradient lookup has both
\* indices in [0, nodes) of the grid regenerated for that octave.
C4_LayeredLatticeBounds ==
    (/\ KeptLayered
     /\ ret.width >= 1 /\ ret.height >= 1 /\ ret.layers >= 1
     /\ ret.scale # Omitted /\ ret.scale[1] >= 1)
    => InRange(ret.look, nodes)

\* C5: started from the same generator state, createLayeredNoiseMap(width,
\* height, 1, scale, persistence) returns cell for cell the field that
\* createNoiseMap(Perlin, width, height, scale) returns.
C5_SingleOctave ==
    (KeptLayered /\ ret.layers = 1) =>
        LET perlin == CreateNoiseMapFrom(ret.pre, "Perlin", ret.width, ret.height, ret.scale)
        IN  ret.status = perlin.status /\ ret.field = perlin.field

\* C6: once a coherent-noise request (createNoiseMap of a coherent kind, or
\* createLayeredNoiseMap with any layers count) has completed, the gradient
\* grid has exactly nodes rows of nodes vectors for the current nodes.
C6_GridDimension ==
    (/\ KeptLayered \/ (ret.op = "createNoiseMap" /\ ret.noiseType \in Coherent)
     /\ ret.status = "ok")
    => /\ Len(gradients) = nodes
       /\ \A i \in 1..Len(gradients) : Len(gradients[i]) = nodes

\* C7 (as stated): for a Perlin value v in [0,1] the ridged transform is 1
\* exactly when v is 0 or 1, and is 0 when v = 0.5.
C7_RidgedExtremes ==
    ret.op = "ridged" =>
        LET v == ret.first[1][1]
            r == ret.field[1][1]
        IN  /\ r = Num(1) <=> v \in {Num(0), Num(1)}
            /\ v = Rat(1, 2) => r = Num(0)

\* C7 (amended): for a Perlin value v in [0,1] the ridged transform
\* 1 - |2v - 1| lies in [0,1], is 1 exactly when v = 0.5 and is 0 exactly when
\* v is 0 or 1.
C7_RidgedExtremesAmended ==
    ret.op = "ridged" =>
        LET v == ret.first[1][1]
            r == ret.field[1][1]
        IN  /\ Leq(Num(0), r) /\ Leq(r, Num(1))
            /\ r = Num(1) <=> v = Rat(1, 2)
            /\ r = Num(0) <=> v \in {Num(0), Num(1)}

C7_Witness ==
    /\ ret.op = "ridged"
    /\ ret.first[1][1] = Rat(1, 2)
    /\ ret.field[1][1] = Num(1)

\* C8: started from the same generator state with the same width, height and
\* scale, every cell of createNoiseMap(River) is 1 minus the cell of
\* createNoiseMap(Ridged), both calls end the same way and both consume the
\* same draws.
C8_RiverComplement ==
    KeptNoiseMap("River") =>
        LET ridged == CreateNoiseMapFrom(ret.pre, "Ridged", ret.width, ret.height, ret.scale)
        IN  /\ ret.status = ridged.status
            /\ Len(ret.field) = Len(ridged.field)
            /\ \A y \in 1..Len(ret.field) :
                   /\ Len(ret.field[y]) = Len(ridged.field[y])
                   /\ \A x \in 1..Len(ret.field[y]) :
                          ret.field[y][x] = Sub(Num(1), ridged.field[y][x])
            /\ currentRng = ridged.m.rng

C8_Witness ==
    /\ KeptNoiseMap("River")
    /\ ret.status = "ok"
    /\ ret.width = 2 /\ ret.height = 2
    /\ ret.pre.rng.pos > 0
    /\ ret.field[2][2] \notin {Num(0), Rat(1, 2), Num(1)}

\* C9: for every field a that a producer can return, a field with zero rows
\* included, invert_noise(invert_noise(a)) completes and equals a cell for
\* cell.
C9_InvertInvolution ==
    ret.op = "invert_noise" =>
        /\ ret.status = "ok"
        /\ ret.depth = 2 => ret.field = ret.first

\* C10: over the overlap of two fields a and b, Union gives the larger and
\* Intersection the smaller of the two cells; both are commutative in (a, b)
\* and Intersection <= Union at every cell.
C10_UnionIntersection ==
    (/\ ret.op = "combineNoiseMaps"
     /\ ret.operation \in {"Union", "Intersection"}
     /\ ret.status = "ok")
    => LET a == ret.args[1]
           b == ret.args[2]
           union == CombineNoiseMaps(a, b, "Union").field
           intersection == CombineNoiseMaps(a, b, "Intersection").field
       IN  /\ ret.field = CombineNoiseMaps(b, a, ret.operation).field
           /\ \A y \in 1..Len(ret.field) : \A x \in 1..Len(ret.field[y]) :
                  /\ union[y][x] \in {a[y][x], b[y][x]}
                  /\ Leq(a[y][x], union[y][x]) /\ Leq(b[y][x], union[y][x])
                  /\ intersection[y][x] \in {a[y][x], b[y][x]}
                  /\ Leq(intersection[y][x], a[y][x]) /\ Leq(intersection[y][x], b[y][x])
                  /\ Leq(intersection[y][x], union[y][x])

\* the number of columns of a rectangular field
WidthOf(field) == IF Len(field) = 0 THEN 0 ELSE Len(field[1])

\* C11: for every pair of rectangular fields, zero rows and zero columns
\* included, and every operation, combineNoiseMaps completes and returns
\* exactly min(ha, hb) rows of min(wa, wb) cells.
C11_Cropping ==
    ret.op = "combineNoiseMaps" =>
        LET a == ret.args[1]
            b == ret.args[2]
        IN  /\ ret.status = "ok"
            /\ Len(ret.field) = Min(Len(a), Len(b))
            /\ \A y \in 1..Len(ret.field) : Len(ret.field[y]) = Min(WidthOf(a), WidthOf(b))

\* the arguments of the kept call that the validation has to refuse
InvalidParameters ==
    \/ ret.width <= 0
    \/ ret.height <= 0
    \/ ScaleOrDefault(ret.scale) < 2

\* C12: createNoiseMap and createLayeredNoiseMap called with a non-positive
\* width or height, or a scale giving fewer than 2 nodes, end with an
\* InvalidParameter error before any draw is consumed and before nodes or the
\* gradient grid is changed, and return no field.
C12_FailFast ==
    (ret.op \in {"createNoiseMap", "createLayeredNoiseMap"} /\ InvalidParameters)
    => /\ ret.status = "InvalidParameter"
       /\ ret.field = <<>>
       /\ Module = ret.pre

\* the scale an omitted or zero scale stands for
StandingScale(scale) == IF scale \in {Omitted, <<0>>} THEN <<4>> ELSE scale

\* the persistence an omitted or zero persistence stands for
StandingPersistence(persistence) ==
    IF persistence \in {Omitted, <<Num(0)>>} THEN <<Rat(1, 2)>> ELSE persistence

SameOutcome(call) ==
    /\ ret.status = call.status
    /\ ret.field = call.field
    /\ Module = call.m

\* C13: from the same state, createNoiseMap of a coherent kind with scale
\* omitted or 0 returns the same field, consumes the same draws and leaves
\* nodes = 4 exactly as the call with scale = 4 does; createLayeredNoiseMap
\* with persistence omitted or 0 does as with persistence = 0.5, and with
\* scale omitted or 0 as with scale = 4.
C13_DefaultSubstitution ==
    /\ (/\ ret.op = "createNoiseMap"
        /\ ret.noiseType \in Coherent
        /\ ret.scale \in {Omitted, <<0>>})
       => /\ nodes = 4
          /\ SameOutcome(CreateNoiseMapFrom(ret.pre, ret.noiseType, ret.width, ret.height, <<4>>))
    /\ KeptLayered
       => SameOutcome(CreateLayeredNoiseMapFrom(ret.pre, ret.width, ret.height, ret.layers,
                          StandingScale(ret.scale), StandingPersistence(ret.persistence)))

C13_Witness ==
    /\ ret.op = "createNoiseMap"
    /\ ret.noiseType = "Terrain"
    /\ ret.scale = <<0>>
    /\ ret.status = "ok"
    /\ ret.pre.nodes # 4
    /\ ret.width = 2 /\ ret.height = 2
    /\ ret.field[2][2] # Rat(1, 2)

KeptMask(maskType) == ret.op = "CreateNoiseMask" /\ ret.noiseType = maskType

\* C14: for every width >= 1 and height >= 1 the Vertical_gradient mask is 0
\* in every cell of row 0 and 1 in every cell of row height-1, and the
\* Horizontal_gradient mask is 0 in every cell of column 0 and 1 in every
\* cell of column width-1.
C14_GradientEndpoints ==
    /\ (KeptMask("Vertical_gradient") /\ ret.width >= 1 /\ ret.height >= 1)
       => \A x \in 1..ret.width :
              ret.field[1][x] = Num(0) /\ ret.field[ret.height][x] = Num(1)
    /\ (KeptMask("Horizontal_gradient") /\ ret.width >= 1 /\ ret.height >= 1)
       => \A y \in 1..ret.height :
              ret.field[y][1] = Num(0) /\ ret.field[y][ret.width] = Num(1)

\* every cell of the field is a number in [0, 1]
InUnitRange(field) ==
    \A y \in 1..Len(field) : \A x \in 1..Len(field[y]) :
        Leq(Num(0), field[y][x]) /\ Leq(field[y][x], Num(1))

\* C15: for every layers >= 0 and persistence in (0,1), every cell returned
\* by createLayeredNoiseMap is the amplitude-weighted sum of the octave
\* samples divided by the sum of the amplitudes, and therefore a defined
\* number in [0,1].
C15_LayeredNormalisation ==
    (KeptLayered /\ ret.status = "ok") =>
        /\ Len(ret.field) = ret.height
        /\ \A y \in 1..ret.height : Len(ret.field[y]) = ret.width
        /\ InUnitRange(ret.field)

\* C16: every perlin_get sample taken inside the grid lies in [0,1], so
\* every cell of a Perlin, Ridged, Terrain or River map that createNoiseMap
\* returns lies in [0,1].
C16_CoherentRange ==
    (ret.op = "createNoiseMap" /\ ret.noiseType \in Coherent /\ ret.status = "ok") =>
        /\ InUnitRange(ret.field)
        /\ InUnitRange(CreateNoiseMapFrom(ret.pre, "Perlin", ret.width, ret.height,
                                          ret.scale).field)

C16_Witness ==
    /\ KeptNoiseMap("Perlin")
    /\ ret.status = "ok"
    /\ ret.width = 2 /\ ret.height = 2
    /\ Less(ret.field[2][2], Rat(1, 2))
    /\ Less(Rat(1, 2), ret.field[1][2])

\* the sample coordinate of pixel index i (from 1) of n pixels is an integer
OnLattice(i, n) == ((i - 1) * (nodes - 1)) % n = 0

\* C17: at every in-range coordinate with integer x and y, perlin_get returns
\* 0.5 whatever the gradient grid is; cell (0,0) of every Perlin map is 0.5.
C17_LatticePoint ==
    (KeptNoiseMap("Perlin") /\ ret.status = "ok") =>
        \A y \in 1..ret.height : \A x \in 1..ret.width :
            (OnLattice(x, ret.width) /\ OnLattice(y, ret.height))
            => ret.field[y][x] = Rat(1, 2)

C17_Witness ==
    /\ KeptNoiseMap("Perlin")
    /\ ret.status = "ok"
    /\ ret.width = 2 /\ ret.height = 2
    /\ nodes = 3
    /\ ret.field[1][1] = Rat(1, 2)
    /\ ret.field[2][2] = Rat(1, 2)

\* C18: for every draw n in [0, 65535], seeded_random returns v with
\* 0 <= v < 1, so every Static cell is strictly below 1.
C18_HalfOpenRange ==
    KeptNoiseMap("Static") =>
        \A y \in 1..Len(ret.field) : \A x \in 1..Len(ret.field[y]) :
            Leq(Num(0), ret.field[y][x]) /\ Less(ret.field[y][x], Num(1))

FieldOperators == {"invert_noise", "combineNoiseMaps", "thresholdNoiseMap"}

\* C20: fields are immutable once produced. Every field a call returned still
\* has, at the rows it was returned with, the cells it was returned with,
\* whatever createNoiseMap, createLayeredNoiseMap, CreateNoiseMask or field
\* operator calls were made since; and after combineNoiseMaps, invert_noise
\* or thresholdNoiseMap every argument still has its cells, and the result is
\* a field whose rows are rows of no argument.
C20_Immutable ==
    /\ Len(refs) = Len(held)
    /\ \A i \in 1..Len(held) : Deref(heap, refs[i]) = held[i]
    /\ ret.op \in FieldOperators =>
        /\ \A k \in 1..Len(ret.args) : Deref(heap, ret.argrefs[k]) = ret.args[k]
        /\ ret.status = "ok" =>
            /\ Deref(heap, ret.ref) = ret.field
            /\ \A y \in 1..Len(ret.ref) : \A k \in 1..Len(ret.argrefs) :
                   \A z \in 1..Len(ret.argrefs[k]) : ret.argrefs[k][z] # ret.ref[y]

C20_Witness ==
    /\ ret.op = "combineNoiseMaps"
    /\ ret.status = "ok"
    /\ Len(held) = 2
    /\ Len(held[1]) = 2 /\ Len(held[1][1]) = 2
    /\ Len(ret.field) = 2 /\ Len(ret.field[1]) = 2
    /\ held[2] # held[1]
    /\ ret.field # held[1]
    /\ ret.field # held[2]
    /\ ret.argrefs = refs
    /\ Len(heap) = 6

\* the generator state the k-th noted call left: the one the next noted call
\* started from, or the present one
After(k) == IF k < Len(made) THEN made[k + 1].pre ELSE Module

\* the draws a noise call takes, n being the value of nodes it left: n^2 for
\* a coherent map, width * height for a Static map, layers * n^2 for a
\* layered map, none for any other kind
DrawsOf(call, n) ==
    CASE call.op = "createLayeredNoiseMap" -> call.layers * n * n
      [] call.op = "createNoiseMap" /\ call.noiseType \in Coherent -> n * n
      [] call.op = "createNoiseMap" /\ call.noiseType = "Static" -> call.width * call.height
      [] OTHER -> 0

\* the draws of the noted calls before the k-th
RECURSIVE DrawnBefore(_)
DrawnBefore(k) ==
    IF k <= 1 THEN 0 ELSE DrawnBefore(k - 1) + DrawsOf(made[k - 1], After(k - 1).nodes)

\* grid g has n rows of n vectors, vector [i][j] made from the draw of rng
\* that is first + i * n + j draws ahead
BuiltFrom(g, rng, n, first) ==
    /\ Len(g) = n
    /\ \A i \in 0..(n - 1) :
           /\ Len(g[i + 1]) = n
           /\ \A j \in 0..(n - 1) :
                  g[i + 1][j + 1] = RandomUnitVector(Advance(rng, first + i * n + j))

\* C21: after setSeed(r) the draws of a run of noise calls are taken
\* consecutively from r, none skipped and with no re-seeding: every call
\* starts at the sum of the draws of the calls before it and leaves the source
\* that many draws further plus its own; a coherent createNoiseMap takes
\* nodes^2 draws and builds gradient [i][j] from its draw i * nodes + j, a
\* Static map takes width * height, and createLayeredNoiseMap takes
\* layers * nodes^2, its last octave building the grid from the draws
\* [(layers - 1) * nodes^2, layers * nodes^2).
C21_DrawAccounting ==
    \A k \in 1..Len(made) :
        /\ made[k].pre.rng.seed = currentRng.seed
        /\ made[k].pre.rng.pos = DrawnBefore(k)
        /\ After(k).rng = Advance(made[k].pre.rng, DrawsOf(made[k], After(k).nodes))
        /\ made[k].op = "createNoiseMap" /\ made[k].noiseType \in Coherent =>
               BuiltFrom(After(k).gradients, made[k].pre.rng, After(k).nodes, 0)
        /\ made[k].op = "createLayeredNoiseMap" /\ made[k].layers >= 1 =>
               BuiltFrom(After(k).gradients, made[k].pre.rng, After(k).nodes,
                         (made[k].layers - 1) * After(k).nodes * After(k).nodes)

\* C22: unrecognised variants fall through silently. combineNoiseMaps with an
\* operation that is none of the six returns a field that has, at every cell
\* of the overlap of its arguments, the value of noiseMap1; createNoiseMap
\* with a kind that is none of the five returns a field of zero rows, raises
\* no error, takes no draw and leaves nodes and the gradient grid as they were.
C22_Fallthrough ==
    /\ ret.op = "combineNoiseMaps" /\ ret.operation \notin CombineOperations =>
        /\ ret.status = "ok"
        /\ \A y \in 1..Min(Len(ret.args[1]), Len(ret.args[2])) :
               \A x \in 1..Min(WidthOf(ret.args[1]), WidthOf(ret.args[2])) :
                   /\ y <= Len(ret.field)
                   /\ x <= Len(ret.field[y])
                   /\ ret.field[y][x] = ret.args[1][y][x]
    /\ ret.op = "createNoiseMap" /\ ret.noiseType \notin NoiseTypes =>
        /\ ret.status = "ok"
        /\ ret.field = <<>>
        /\ currentRng = ret.pre.rng
        /\ nodes = ret.pre.nodes
        /\ gradients = ret.pre.gradients

====

